---- MODULE Spec2Model ----
(***************************************************************************)
(* Model of the children's story generator (src/main.py): the genre        *)
(* classifier, the three-call generation pipeline, the character           *)
(* extractor and the turn loop of main().                                  *)
(*                                                                         *)
(* Texts are sequences of one-character strings, so that lower(), upper(), *)
(* strip(), split() and the substring test `in` are computed as Python     *)
(* computes them.                                                          *)
(***************************************************************************)
EXTENDS Integers, Sequences, FiniteSets, TLC

\* ------------------------------------------------------------------------
\* Bounds of the model
\* ------------------------------------------------------------------------

\* Largest number of words in a request handed to detect_genre.
MaxWords == 3

\* ------------------------------------------------------------------------
\* Text primitives (Python str methods)
\* ------------------------------------------------------------------------

UpperLetters == <<"A","B","C","D","E","F","G","H","I","J","K","L","M","N","O","P","Q","R","S","T","U","V","W","X","Y","Z">>

LowerLetters == <<"a","b","c","d","e","f","g","h","i","j","k","l","m","n","o","p","q","r","s","t","u","v","w","x","y","z">>

UpperSet == {UpperLetters[i] : i \in 1..Len(UpperLetters)}

LowerSet == {LowerLetters[i] : i \in 1..Len(LowerLetters)}

LowerOf == [c \in UpperSet |->
              LowerLetters[CHOOSE i \in 1..Len(UpperLetters) : UpperLetters[i] = c]]

UpperOf == [c \in LowerSet |->
              UpperLetters[CHOOSE i \in 1..Len(LowerLetters) : LowerLetters[i] = c]]

\* str.lower()
Lower(s) == [i \in 1..Len(s) |-> IF s[i] \in UpperSet THEN LowerOf[s[i]] ELSE s[i]]

\* str.upper()
Upper(s) == [i \in 1..Len(s) |-> IF s[i] \in LowerSet THEN UpperOf[s[i]] ELSE s[i]]

\* the Python test `needle in hay` on strings
Contains(hay, needle) ==
    \E i \in 1..(Len(hay) - Len(needle) + 1) :
        /\ hay[i] = needle[1]
        /\ SubSeq(hay, i, i + Len(needle) - 1) = needle

RECURSIVE JoinWords(_)
\* the text of a request written as the given words, separated by blanks
JoinWords(ws) ==
    IF ws = <<>> THEN <<>>
    ELSE IF Len(ws) = 1 THEN ws[1]
    ELSE ws[1] \o <<" ">> \o JoinWords(Tail(ws))

\* characters removed by str.strip()
Whitespace == {" ", "\n", "\t"}

RECURSIVE LStrip(_)
LStrip(s) == IF s # <<>> /\ s[1] \in Whitespace THEN LStrip(Tail(s)) ELSE s

RECURSIVE RStrip(_)
RStrip(s) ==
    IF s # <<>> /\ s[Len(s)] \in Whitespace THEN RStrip(SubSeq(s, 1, Len(s) - 1)) ELSE s

\* str.strip()
Strip(s) == RStrip(LStrip(s))

RECURSIVE Split(_, _)
\* str.split(sep) for a separator of one character
Split(s, sep) ==
    IF \A i \in 1..Len(s) : s[i] # sep THEN <<s>>
    ELSE LET i == CHOOSE k \in 1..Len(s) : s[k] = sep /\ \A j \in 1..(k - 1) : s[j] # sep
         IN  <<SubSeq(s, 1, i - 1)>> \o Split(SubSeq(s, i + 1, Len(s)), sep)

Digits == <<"0","1","2","3","4","5","6","7","8","9">>

DigitSet == {Digits[i] : i \in 1..Len(Digits)}

DigitValue == [c \in DigitSet |-> (CHOOSE i \in 1..Len(Digits) : Digits[i] = c) - 1]

\* characters that str.isdigit() accepts and int() rejects (superscripts)
SuperscriptDigits == {"²"}

\* str.isdigit()
IsDigit(s) == s # <<>> /\ \A i \in 1..Len(s) : s[i] \in DigitSet \cup SuperscriptDigits

\* int(s) raises ValueError, for a text that str.isdigit() accepts
IntRaises(s) == \E i \in 1..Len(s) : s[i] \notin DigitSet

RECURSIVE IntOf(_)
\* int(s) for a text of digits
IntOf(s) == IF s = <<>> THEN 0 ELSE 10 * IntOf(SubSeq(s, 1, Len(s) - 1)) + DigitValue[s[Len(s)]]

\* ------------------------------------------------------------------------
\* Optional[str]: None or a text
\* ------------------------------------------------------------------------

None == [isNone |-> TRUE, text |-> <<>>]

Some(t) == [isNone |-> FALSE, text |-> t]

\* truth value of an Optional[str] in `if x:` / `if not x:`
Truthy(v) == ~v.isNone /\ v.text # <<>>

\* ------------------------------------------------------------------------
\* call_model
\* ------------------------------------------------------------------------

\* what the backend does with one request: it raises, or it completes with
\* a text
Raises == [raises |-> TRUE, text |-> <<>>]

Completes(t) == [raises |-> FALSE, text |-> t]

\* the body of `try:`: without a key it returns None before any request is
\* sent; with a key one request is sent and its outcome is the backend's
TryBody(key, backend) ==
    IF ~key THEN [raised |-> FALSE, value |-> None, requests |-> 0]
    ELSE IF backend.raises THEN [raised |-> TRUE, value |-> None, requests |-> 1]
    ELSE [raised |-> FALSE, value |-> Some(backend.text), requests |-> 1]

\* mutation: the handler lets the exception out
ExceptException_Reraise(run) == run

\* `except Exception as e: ... return None`
ExceptException(run) ==
    IF run.raised THEN [run EXCEPT !.raised = FALSE, !.value = None] ELSE run

\* one call of call_model: what it returns, whether it raised, and how many
\* requests it sent to the backend
CallModelRun(key, backend) == ExceptException(TryBody(key, backend))

call_model(key, backend) == CallModelRun(key, backend).value

\* ------------------------------------------------------------------------
\* GenrePromptEngine.detect_genre
\* ------------------------------------------------------------------------

\* iteration order of the genre_keywords dict
GenreOrder == <<"adventure", "fairy_tale", "educational", "friendship", "fantasy">>

Genres == {GenreOrder[i] : i \in 1..Len(GenreOrder)}

genre_keywords == [
    adventure |-> <<
        <<"a","d","v","e","n","t","u","r","e">>,
        <<"q","u","e","s","t">>,
        <<"j","o","u","r","n","e","y">>,
        <<"e","x","p","l","o","r","e">>,
        <<"b","r","a","v","e">>,
        <<"h","e","r","o">> >>,
    fairy_tale |-> <<
        <<"p","r","i","n","c","e","s","s">>,
        <<"p","r","i","n","c","e">>,
        <<"m","a","g","i","c">>,
        <<"f","a","i","r","y">>,
        <<"c","a","s","t","l","e">>,
        <<"w","i","t","c","h">>,
        <<"d","r","a","g","o","n">> >>,
    educational |-> <<
        <<"l","e","a","r","n">>,
        <<"t","e","a","c","h">>,
        <<"s","c","h","o","o","l">>,
        <<"f","a","c","t","s">>,
        <<"s","c","i","e","n","c","e">>,
        <<"m","a","t","h">>,
        <<"e","d","u","c","a","t","i","o","n","a","l">> >>,
    friendship |-> <<
        <<"f","r","i","e","n","d">>,
        <<"f","r","i","e","n","d","s","h","i","p">>,
        <<"t","o","g","e","t","h","e","r">>,
        <<"h","e","l","p">>,
        <<"k","i","n","d">>,
        <<"c","a","r","i","n","g">> >>,
    fantasy |-> <<
        <<"m","a","g","i","c","a","l">>,
        <<"w","i","z","a","r","d">>,
        <<"u","n","i","c","o","r","n">>,
        <<"f","a","n","t","a","s","y">>,
        <<"m","y","s","t","i","c","a","l">>,
        <<"e","n","c","h","a","n","t","e","d">> >>
]

KeywordSets == [g \in Genres |-> {genre_keywords[g][i] : i \in 1..Len(genre_keywords[g])}]

KeywordSet(g) == KeywordSets[g]

AllKeywords == UNION {KeywordSets[g] : g \in Genres}

\* mutation: the request is matched as written, without lower()
RequestLower_AsWritten(text) == text

\* request_lower = user_request.lower()
RequestLower(text) == Lower(text)

\* score = sum(1 for keyword in keywords if keyword in request_lower)
GenreScore(g, request_lower) ==
    Cardinality({i \in 1..Len(genre_keywords[g]) :
                    Contains(request_lower, genre_keywords[g][i])})

GenreScores(request_lower) == [g \in Genres |-> GenreScore(g, request_lower)]

\* mutation: a later key of equal score replaces the best
MaxStep_LastWins(scores, best, cand) == IF scores[cand] >= scores[best] THEN cand ELSE best

\* one step of max(): a later key replaces the best only if strictly greater
MaxStep(scores, best, cand) == IF scores[cand] > scores[best] THEN cand ELSE best

RECURSIVE MaxKeyFrom(_, _, _)
MaxKeyFrom(scores, best, i) ==
    IF i > Len(GenreOrder) THEN best
    ELSE MaxKeyFrom(scores, MaxStep(scores, best, GenreOrder[i]), i + 1)

\* max(genre_scores, key=genre_scores.get)
MaxKey(scores) == MaxKeyFrom(scores, GenreOrder[1], 2)

\* return detected_genre if genre_scores[detected_genre] > 0 else "adventure"
DefaultGenre(scores, best) == IF scores[best] > 0 THEN best ELSE "adventure"

detect_genre(text) ==
    LET scores == GenreScores(RequestLower(text))
    IN  DefaultGenre(scores, MaxKey(scores))

\* ------------------------------------------------------------------------
\* extract_characters
\* ------------------------------------------------------------------------

\* memory.characters is a dict: a sequence of Character records in insertion
\* order, one per name
Keys(chars) == [i \in 1..Len(chars) |-> chars[i].name]

\* mutation: the record is added whether or not the name is known
DictSet_Append(chars, c) == Append(chars, c)

\* memory.characters[name] = Character(...)
DictSet(chars, c) ==
    IF \E i \in 1..Len(chars) : chars[i].name = c.name
    THEN [i \in 1..Len(chars) |-> IF chars[i].name = c.name THEN c ELSE chars[i]]
    ELSE Append(chars, c)

PersonalityMarker == <<"p","e","r","s","o","n","a","l","i","t","y",":">>

\* personality = [t.strip() for t in part.split(':')[1].strip().split(',')]
Traits(part) ==
    LET traits == Split(Strip(Split(part, ":")[2]), ",")
    IN  [i \in 1..Len(traits) |-> Strip(traits[i])]

RECURSIVE PersonalityFrom(_, _, _)
\* for part in parts: if 'personality:' in part.lower(): personality = ...
PersonalityFrom(parts, i, personality) ==
    IF i > Len(parts) THEN personality
    ELSE PersonalityFrom(parts, i + 1,
            IF Contains(Lower(parts[i]), PersonalityMarker)
            THEN Traits(parts[i]) ELSE personality)

\* description = name_desc[1].strip()
DescriptionOf(name_desc) == Strip(name_desc[2])

\* mutation: a colon is enough
Qualifies_ColonOnly(line) == Contains(line, <<":">>)

\* `if ':' in line and '|' in line`
Qualifies(line) == Contains(line, <<":">>) /\ Contains(line, <<"|">>)

\* the body of `for line in lines`
ParseLine(chars, line) ==
    IF Qualifies(line)
    THEN LET parts == Split(line, "|")
             name_desc == Split(parts[1], ":")
         IN  IF Len(name_desc) >= 2
             THEN DictSet(chars, [name |-> Strip(name_desc[1]),
                                  description |-> DescriptionOf(name_desc),
                                  personality |-> PersonalityFrom(parts, 1, <<>>)])
             ELSE chars
    ELSE chars

RECURSIVE ParseLines(_, _, _)
ParseLines(chars, lines, i) ==
    IF i > Len(lines) THEN chars
    ELSE ParseLines(ParseLine(chars, lines[i]), lines, i + 1)

\* extract_characters, given the value call_model returned
extract_characters(result, chars) ==
    IF Truthy(result) THEN ParseLines(chars, Split(result.text, "\n"), 1) ELSE chars

\* ------------------------------------------------------------------------
\* get_user_feedback, revise_story_with_feedback
\* ------------------------------------------------------------------------

\* `rating_input.isdigit() and 1 <= int(rating_input) <= 5` raises ValueError:
\* int() is reached only if isdigit() holds
RatingRaises(rating_input) == IsDigit(rating_input) /\ IntRaises(rating_input)

\* rating = int(rating_input) if rating_input.isdigit() and 1 <= int(..) <= 5
RatingOf(rating_input) ==
    IF IsDigit(rating_input) /\ 1 <= IntOf(rating_input) /\ IntOf(rating_input) <= 5
    THEN IntOf(rating_input) ELSE 0

\* whether get_user_feedback asks for a text after this rating
AsksText(rating) == rating > 0 /\ (rating <= 2 \/ rating >= 4)

\* get_user_feedback, given the line typed at the rating prompt and the line
\* typed at the text prompt (read only if the prompt is shown)
get_user_feedback(rating_line, text_line) ==
    LET rating == RatingOf(Strip(rating_line))
    IN  [rating |-> rating,
         feedback |-> IF AsksText(rating) THEN Strip(text_line) ELSE <<>>]

\* mutation: the rating is not looked at
NoRevisionNeeded_TextOnly(fb) == fb.feedback = <<>>

\* `if not feedback.get("feedback") or feedback.get("rating", 0) >= 4`
NoRevisionNeeded(fb) == fb.feedback = <<>> \/ fb.rating >= 4

\* revise_story_with_feedback: the number of calls of call_model
RevisionCalls(fb) == IF NoRevisionNeeded(fb) THEN 0 ELSE 1

\* revise_story_with_feedback, given the value call_model returns if called
revise_story_with_feedback(story_text, fb, revised) ==
    IF NoRevisionNeeded(fb) THEN story_text
    ELSE IF Truthy(revised) THEN revised.text ELSE story_text

\* main: `if feedback.get("rating", 0) <= 2 and feedback.get("feedback")`
RevisionGate(fb) == fb.rating <= 2 /\ fb.feedback # <<>>

\* ------------------------------------------------------------------------
\* assess_story_quality
\* ------------------------------------------------------------------------

YES == <<"Y","E","S">>

\* mutation: the response is searched as written, without upper()
AssessUpper_AsWritten(text) == text

\* result.upper()
AssessUpper(text) == Upper(text)

\* return result and "YES" in result.upper()
assess_story_quality(result) == Truthy(result) /\ Contains(AssessUpper(result.text), YES)

\* ------------------------------------------------------------------------
\* StoryMemory
\* ------------------------------------------------------------------------

NoPreferences == [g \in {} |-> 0]

\* StoryMemory(): world_details is never written and is left out
NewMemory == [current_story |-> <<>>,
              genre |-> "",
              characters |-> <<>>,
              story_history |-> <<>>,
              user_preferences |-> NoPreferences]

\* the record add_story appends
HistoryRecord(mem, story_text, genre, request, quality_score) ==
    [story |-> story_text, genre |-> genre, request |-> request,
     quality_score |-> quality_score, characters |-> Keys(mem.characters)]

\* mutation: the new record replaces the history
HistoryAppend_Replace(history, rec) == <<rec>>

\* self.story_history.append(...)
HistoryAppend(history, rec) == Append(history, rec)

\* StoryMemory.add_story
add_story(mem, story_text, genre, request, quality_score) ==
    [mem EXCEPT !.story_history =
                    HistoryAppend(@, HistoryRecord(mem, story_text, genre, request, quality_score)),
                !.current_story = story_text,
                !.genre = genre]

\* mutation: the counter starts again at 1
BumpPreference_Restart(prefs, genre) ==
    [g \in DOMAIN prefs \cup {genre} |-> IF g = genre THEN 1 ELSE prefs[g]]

\* main: genre_pref[memory.genre] = genre_pref.get(memory.genre, 0) + 1
BumpPreference(prefs, genre) ==
    [g \in DOMAIN prefs \cup {genre} |->
        IF g = genre THEN (IF g \in DOMAIN prefs THEN prefs[g] ELSE 0) + 1 ELSE prefs[g]]

\* main: the update of user_preferences after add_story
UpdatePreferences(mem, rating) ==
    IF rating >= 4
    THEN [mem EXCEPT !.user_preferences = BumpPreference(@, mem.genre)]
    ELSE mem

\* ------------------------------------------------------------------------
\* Requests handed to detect_genre: up to MaxWords words, each a keyword of
\* some genre or one of a few other words
\* ------------------------------------------------------------------------

\* words that are no keyword: a keyword in other case, a word that holds no
\* keyword and a word that holds one inside
OtherWords == <<
    <<"M","a","g","i","c","a","l">>,
    <<"W","I","Z","A","R","D">>,
    <<"m","o","u","s","e">>,
    <<"h","e","r","o","e","s">>
>>

Vocabulary ==
    genre_keywords["adventure"] \o genre_keywords["fairy_tale"]
        \o genre_keywords["educational"] \o genre_keywords["friendship"]
        \o genre_keywords["fantasy"] \o OtherWords

WordIndex(w) == CHOOSE i \in 1..Len(Vocabulary) : Vocabulary[i] = w

\* the first word that may follow the words written so far
NextWordFrom(ws) == IF ws = <<>> THEN 1 ELSE WordIndex(ws[Len(ws)])

VARIABLES
    user_request,     \* detect_genre: the words of the request
    genre_scores,     \* detect_genre: local genre_scores
    detected_genre,   \* detect_genre: the value returned ("" before the call)
    dg_pc,            \* detect_genre: "compose" or "returned"
    pc,               \* main: where the session is
    api_key,          \* whether OPENAI_API_KEY is set in the environment
    memory,           \* main: the StoryMemory
    story_count,      \* main: story_count
    user_input,       \* main: user_input
    is_episode,       \* main: is_episode
    choice,           \* main: choice, the last line typed at the menu
    initial_story,    \* generate_story: initial_story
    story,            \* main: story, the value generate_story returned
    feedback,         \* main: feedback
    assess_result,    \* assess_story_quality: result, until the next prompt
    accepted,         \* main: the value assess_story_quality returned this turn
    gs_calls,         \* the model calls of the running generate_story
    gs_return,        \* whether generate_story is running or what it returned
    turn_start,       \* the session's records when this turn of the loop began
    empty_requests,   \* how many empty request lines were typed in a row
    call_fn,          \* "main", or the function that is called on its own
    call_args,        \* the arguments and inputs of that call
    call_ret          \* what that call has returned

dgvars == <<user_request, genre_scores, detected_genre, dg_pc>>

svars == <<pc, api_key, memory, story_count, user_input, is_episode, choice,
           initial_story, story, feedback, assess_result, accepted,
           gs_calls, gs_return, turn_start, empty_requests>>

cvars == <<call_fn, call_args, call_ret>>

vars == <<dgvars, svars, cvars>>

ZeroScores == [g \in Genres |-> 0]

Idle == [st |-> "idle", value |-> None]

Running == [st |-> "running", value |-> None]

Returned(v) == [st |-> "returned", value |-> v]

NoFeedback == [rating |-> 0, feedback |-> <<>>]

NoArgs == [none |-> TRUE]

NotReturned == [returned |-> FALSE]

\* what a turn must leave alone when no story is produced
Snapshot(count, mem, fb) ==
    [story_count |-> count,
     story_history |-> mem.story_history,
     current_story |-> mem.current_story,
     user_preferences |-> mem.user_preferences,
     feedback |-> fb]

InitDetect ==
    /\ user_request = <<>>
    /\ genre_scores = ZeroScores
    /\ detected_genre = ""
    /\ dg_pc = "compose"

\* main() up to the credential check
InitSession ==
    /\ pc = "Startup"
    /\ memory = NewMemory
    /\ story_count = 0
    /\ user_input = <<>>
    /\ is_episode = FALSE
    /\ choice = <<>>
    /\ initial_story = None
    /\ story = None
    /\ feedback = NoFeedback
    /\ assess_result = None
    /\ accepted = FALSE
    /\ gs_calls = <<>>
    /\ gs_return = Idle
    /\ turn_start = Snapshot(0, NewMemory, NoFeedback)
    /\ empty_requests = 0
    /\ call_fn = "main"
    /\ call_args = NoArgs
    /\ call_ret = NotReturned

InitGenre ==
    /\ InitDetect
    /\ InitSession
    /\ api_key = TRUE

\* the user writes one more word of the request.  No keyword holds a blank,
\* so the order of the words does not change which keywords occur; the words
\* are written in the order of Vocabulary.
WriteWord(i) ==
    /\ dg_pc = "compose"
    /\ Len(user_request) < MaxWords
    /\ i >= NextWordFrom(user_request)
    /\ user_request' = Append(user_request, Vocabulary[i])
    /\ UNCHANGED <<genre_scores, detected_genre, dg_pc, svars, cvars>>

\* GenrePromptEngine.detect_genre(user_request)
DetectGenre ==
    /\ dg_pc = "compose"
    /\ LET scores == GenreScores(RequestLower(JoinWords(user_request)))
       IN  /\ genre_scores' = scores
           /\ detected_genre' = DefaultGenre(scores, MaxKey(scores))
    /\ dg_pc' = "returned"
    /\ UNCHANGED <<user_request, svars, cvars>>

NextGenre ==
    \/ \E i \in NextWordFrom(user_request)..Len(Vocabulary) : WriteWord(i)
    \/ DetectGenre

SpecGenre == InitGenre /\ [][NextGenre]_vars

\* ------------------------------------------------------------------------
\* The session: main()
\* ------------------------------------------------------------------------

\* Largest number of stories produced in one session.
MaxStories == 2

\* Largest number of empty request lines typed in a row.
MaxEmptyRequests == 2

\* texts the backend completes with
DraftText == <<"D">>

EvaluationText == <<"E">>

RefinedText == <<"R">>

RevisedText == <<"V">>

DraftOutcomes == {Raises, Completes(<<>>), Completes(DraftText)}

EvaluationOutcomes == {Raises, Completes(<<>>), Completes(EvaluationText)}

RefinementOutcomes == {Raises, Completes(<<>>), Completes(RefinedText)}

RevisionOutcomes == {Raises, Completes(<<>>), Completes(RevisedText)}

ExtractionOutcomes == {
    Raises,
    Completes(<<"A","l",":"," ","c","a","t"," ","|"," ","p","e","r","s","o","n","a","l","i","t","y",":"," ","s","h","y">>),
    Completes(<<"B","o"," ","d","o","g">>)
}

AssessmentOutcomes == {
    Raises,
    Completes(<<>>),
    Completes(<<"N","O">>),
    Completes(<<"Y","E","S">>),
    Completes(<<"O","h"," ","y","e","s","!">>),
    Completes(<<"y","s","e">>)
}

\* lines typed at the request prompts
RequestLines == {
    <<>>,
    <<"q","u","i","t">>,
    <<" ","Q">>,
    <<"E","x","i","t">>,
    <<"m","a","t","h">>,
    <<"m","a","g","i","c">>
}

\* lines typed at the menu
ChoiceLines == {<<"1">>, <<" ","2">>, <<"3">>, <<"4">>}

\* the line typed at the rating prompt, with the line typed at the feedback
\* prompt if that prompt is shown; the rating lines of the session are lines
\* that int() accepts
FeedbackLines == {
    [rating |-> <<"7">>, text |-> <<>>],
    [rating |-> <<"2">>, text |-> <<>>],
    [rating |-> <<"2"," ">>, text |-> <<"f","u","n"," ">>],
    [rating |-> <<"4">>, text |-> <<"f","u","n"," ">>]
}

QuitKeywords == {<<"q","u","i","t">>, <<"e","x","i","t">>, <<"q">>}

\* mutation: the request is compared as typed
IsQuit_AsTyped(input) == input \in QuitKeywords

\* user_input.lower() in ['quit', 'exit', 'q']
IsQuit(input) == Lower(input) \in QuitKeywords

\* mutation: the loop always shows the first prompt
NextPrompt_First(count) == "AwaitingFirstRequest"

\* the top of `while True`: which prompt the loop shows next
NextPrompt(count) == IF count = 0 THEN "AwaitingFirstRequest" ELSE "AwaitingNextAction"

\* mutation: a failed generation ends the session
AfterFailedGeneration_Done(count) == "Done"

\* main: where the loop goes when generate_story returned None
AfterFailedGeneration(count) == NextPrompt(count)

\* generate_story: the genre for this story
GenreFor(mem, input, episode) == IF episode THEN mem.genre ELSE detect_genre(input)

\* mutation: the evaluation is never taken as failed
EvaluationFailed_Never(evaluation) == FALSE

\* generate_story: `evaluation = call_model(...); if not evaluation: return`
EvaluationFailed(evaluation) == ~Truthy(evaluation)

\* mutation: the refinement is dropped and the draft kept
RefinedOrDraft_KeepDraft(final_story, draft) == draft

\* generate_story: `story = final_story if final_story else initial_story`
RefinedOrDraft(final_story, draft) == IF Truthy(final_story) THEN final_story ELSE draft

\* generate_story: `if not is_episode: extract_characters(story, memory)`
RunsExtractor(episode) == ~episode

\* one model call of generate_story
Call(kind, arg, result) == [kind |-> kind, arg |-> arg, result |-> result]

\* the credential check of main()
Startup ==
    /\ pc = "Startup"
    /\ pc' = IF api_key THEN "AwaitingFirstRequest" ELSE "Done"
    /\ UNCHANGED <<api_key, memory, story_count, user_input, is_episode, choice,
                   initial_story, story, feedback, assess_result, accepted,
                   gs_calls, gs_return, turn_start, dgvars, cvars, empty_requests>>

\* The locals of one turn of `while True` (user_input, is_episode, choice,
\* story, feedback and the locals of the functions called) are assigned in
\* every turn before they are read: when a turn ends they hold nothing the
\* program will read, and the next turn starts from these values.
ForgetTurnLocals ==
    /\ user_input' = <<>>
    /\ is_episode' = FALSE
    /\ choice' = <<>>
    /\ initial_story' = None
    /\ story' = None
    /\ feedback' = NoFeedback
    /\ assess_result' = None
    /\ accepted' = FALSE
    /\ gs_calls' = <<>>
    /\ gs_return' = Idle

\* main, lines 430-438: the quit test, the empty test and the start of
\* generate_story (lines 264-267), for the request just read.  The model
\* follows up to MaxEmptyRequests empty lines in a row.
HandleRequest(input, episode, mem) ==
    IF IsQuit(input)
    THEN /\ pc' = "Done"
         /\ user_input' = input
         /\ is_episode' = episode
         /\ memory' = mem
         /\ empty_requests' = 0
         /\ UNCHANGED <<api_key, story_count, choice, initial_story, story, feedback,
                        assess_result, accepted, gs_calls, gs_return, dgvars, cvars>>
    ELSE IF input = <<>>
    THEN /\ empty_requests < MaxEmptyRequests
         /\ pc' = NextPrompt(story_count)
         /\ memory' = mem
         /\ empty_requests' = empty_requests + 1
         /\ ForgetTurnLocals
         /\ UNCHANGED <<api_key, story_count, dgvars, cvars>>
    ELSE /\ pc' = "Draft"
         /\ user_input' = input
         /\ is_episode' = episode
         /\ memory' = [mem EXCEPT !.genre = GenreFor(mem, input, episode)]
         /\ empty_requests' = 0
         /\ gs_calls' = <<>>
         /\ gs_return' = Running
         /\ UNCHANGED <<api_key, story_count, choice, initial_story, story, feedback,
                        assess_result, accepted, dgvars, cvars>>

\* the characters after `memory.characters.clear()`
ClearedCharacters(mem) == [mem EXCEPT !.characters = <<>>]

\* story_count == 0: the first request prompt
FirstRequest(line) ==
    /\ pc = "AwaitingFirstRequest"
    /\ turn_start' = Snapshot(story_count, memory, feedback)
    /\ HandleRequest(Strip(line), FALSE, memory)

\* story_count > 0: assess_story_quality(memory.current_story, memory).
\* The model follows a session up to its MaxStories-th story.
Assess(backend) ==
    /\ pc = "AwaitingNextAction"
    /\ story_count < MaxStories
    /\ turn_start' = Snapshot(story_count, memory, feedback)
    /\ LET result == call_model(api_key, backend)
       IN  /\ assess_result' = result
           /\ accepted' = assess_story_quality(result)
           /\ pc' = IF assess_story_quality(result) THEN "Menu" ELSE "PromptNext"
    /\ UNCHANGED <<api_key, memory, story_count, user_input, is_episode, choice,
                   initial_story, story, feedback, gs_calls, gs_return, dgvars, cvars, empty_requests>>

\* get_user_choice: one line typed at the menu
MenuChoice(line) ==
    /\ pc = "Menu"
    /\ choice' = Strip(line)
    /\ pc' = IF Strip(line) = <<"1">> THEN "PromptEpisode"
             ELSE IF Strip(line) = <<"2">> THEN "PromptNew"
             ELSE IF Strip(line) = <<"3">> THEN "Done"
             ELSE "Menu"
    /\ UNCHANGED <<api_key, memory, story_count, user_input, is_episode,
                   initial_story, story, feedback, assess_result, accepted,
                   gs_calls, gs_return, turn_start, dgvars, cvars, empty_requests>>

\* choice == '1': the episode prompt
PromptEpisode(line) ==
    /\ pc = "PromptEpisode"
    /\ HandleRequest(Strip(line), TRUE, memory)
    /\ UNCHANGED turn_start

\* choice == '2': the new-story prompt, then memory.characters.clear()
PromptNew(line) ==
    /\ pc = "PromptNew"
    /\ HandleRequest(Strip(line), FALSE, ClearedCharacters(memory))
    /\ UNCHANGED turn_start

\* assessment not accepted: the next-story prompt, then characters.clear()
PromptNext(line) ==
    /\ pc = "PromptNext"
    /\ HandleRequest(Strip(line), FALSE, ClearedCharacters(memory))
    /\ UNCHANGED turn_start

\* generate_story: initial_story = call_model(storyteller_prompt)
DraftCall(backend) ==
    /\ pc = "Draft"
    /\ LET result == call_model(api_key, backend)
       IN  /\ initial_story' = result
           /\ gs_calls' = Append(gs_calls, Call("draft", <<>>, result))
           /\ IF ~Truthy(result)
              THEN /\ gs_return' = Returned(None)
                   /\ story' = None
                   /\ pc' = "Failed"
              ELSE /\ gs_return' = gs_return
                   /\ story' = story
                   /\ pc' = "Evaluate"
    /\ UNCHANGED <<api_key, memory, story_count, user_input, is_episode, choice,
                   feedback, assess_result, accepted, turn_start, dgvars, cvars, empty_requests>>

\* main, lines 471-475: generate_story returned None; the apology is printed
\* and the loop starts over
ReportFailure ==
    /\ pc = "Failed"
    /\ pc' = AfterFailedGeneration(story_count)
    /\ ForgetTurnLocals
    /\ UNCHANGED <<api_key, memory, story_count, turn_start, dgvars, cvars, empty_requests>>

\* generate_story: evaluation = call_model(judge_prompt)
EvaluationCall(backend) ==
    /\ pc = "Evaluate"
    /\ LET result == call_model(api_key, backend)
       IN  /\ gs_calls' = Append(gs_calls, Call("evaluation", initial_story.text, result))
           /\ IF EvaluationFailed(result)
              THEN /\ gs_return' = Returned(initial_story)
                   /\ story' = initial_story
                   /\ pc' = "Feedback"
              ELSE /\ gs_return' = gs_return
                   /\ story' = story
                   /\ pc' = "Refine"
    /\ UNCHANGED <<api_key, memory, story_count, user_input, is_episode, choice,
                   initial_story, feedback, assess_result, accepted, turn_start, dgvars, cvars, empty_requests>>

\* generate_story: final_story = call_model(refine_prompt)
RefinementCall(backend) ==
    /\ pc = "Refine"
    /\ LET result == call_model(api_key, backend)
           refined == RefinedOrDraft(result, initial_story)
       IN  /\ gs_calls' = Append(gs_calls, Call("refinement", initial_story.text, result))
           /\ story' = refined
           /\ IF RunsExtractor(is_episode)
              THEN /\ gs_return' = gs_return
                   /\ pc' = "Extract"
              ELSE /\ gs_return' = Returned(refined)
                   /\ pc' = "Feedback"
    /\ UNCHANGED <<api_key, memory, story_count, user_input, is_episode, choice,
                   initial_story, feedback, assess_result, accepted, turn_start, dgvars, cvars, empty_requests>>

\* generate_story: extract_characters(story, memory), then return story
ExtractionCall(backend) ==
    /\ pc = "Extract"
    /\ LET result == call_model(api_key, backend)
       IN  /\ gs_calls' = Append(gs_calls, Call("extraction", story.text, result))
           /\ memory' = [memory EXCEPT !.characters = extract_characters(result, @)]
    /\ gs_return' = Returned(story)
    /\ pc' = "Feedback"
    /\ UNCHANGED <<api_key, story_count, user_input, is_episode, choice,
                   initial_story, story, feedback, assess_result, accepted,
                   turn_start, dgvars, cvars, empty_requests>>

\* main, lines 461-475: add_story, the counter and the preferences; the turn
\* ends
StoreStory(story_text, fb) ==
    /\ memory' = UpdatePreferences(
                    add_story(memory, story_text, memory.genre, user_input, fb.rating),
                    fb.rating)
    /\ story_count' = story_count + 1
    /\ pc' = "AwaitingNextAction"
    /\ ForgetTurnLocals

\* main, lines 448-469: get_user_feedback(); without a revision the story is
\* stored at once
Feedback(rating_line, text_line) ==
    /\ pc = "Feedback"
    /\ LET fb == get_user_feedback(rating_line, text_line)
       IN  IF RevisionGate(fb)
           THEN /\ pc' = "Revise"
                /\ feedback' = fb
                /\ gs_calls' = <<>>
                /\ gs_return' = Idle
                /\ UNCHANGED <<memory, story_count, user_input, is_episode, choice,
                               initial_story, story, assess_result, accepted>>
           ELSE StoreStory(story.text, fb)
    /\ UNCHANGED <<api_key, turn_start, dgvars, cvars, empty_requests>>

\* main, lines 453-469: revise_story_with_feedback, then the story is stored
RevisionCall(backend) ==
    /\ pc = "Revise"
    /\ LET revised == revise_story_with_feedback(story.text, feedback,
                                                 call_model(api_key, backend))
       IN  StoreStory(revised, feedback)
    /\ UNCHANGED <<api_key, turn_start, dgvars, cvars, empty_requests>>

Next ==
    \/ Startup
    \/ \E line \in RequestLines : FirstRequest(line)
    \/ \E backend \in AssessmentOutcomes : Assess(backend)
    \/ \E line \in ChoiceLines : MenuChoice(line)
    \/ \E line \in RequestLines : PromptEpisode(line)
    \/ \E line \in RequestLines : PromptNew(line)
    \/ \E line \in RequestLines : PromptNext(line)
    \/ \E backend \in DraftOutcomes : DraftCall(backend)
    \/ ReportFailure
    \/ \E backend \in EvaluationOutcomes : EvaluationCall(backend)
    \/ \E backend \in RefinementOutcomes : RefinementCall(backend)
    \/ \E backend \in ExtractionOutcomes : ExtractionCall(backend)
    \/ \E lines \in FeedbackLines : Feedback(lines.rating, lines.text)
    \/ \E backend \in RevisionOutcomes : RevisionCall(backend)

Init ==
    /\ InitDetect
    /\ InitSession
    /\ api_key \in BOOLEAN

Spec == Init /\ [][Next]_vars

\* ------------------------------------------------------------------------
\* Calls of one function on its own: call_model, revise_story_with_feedback,
\* get_user_feedback and extract_characters, each on arguments drawn from the
\* sets below
\* ------------------------------------------------------------------------

\* Largest number of lines in a response to the extraction prompt.
MaxLines == 2

\* what the backend may do with a request
BackendOutcomes == {Raises, Completes(<<>>), Completes(RevisedText)}

\* the ratings of a feedback dict
Ratings == 0..5

\* the feedback texts of a feedback dict
FeedbackTexts == {<<>>, <<"f","u","n">>}

\* stories handed to revise_story_with_feedback
StoryTexts == {DraftText, RefinedText}

\* lines typed at the rating prompt
RatingInputs == {<<>>, <<"7">>, <<"0">>, <<"1">>, <<"2">>, <<"3">>, <<"4">>, <<"5">>, <<" ","3"," ">>, <<"a","b">>, <<"1","2">>, <<"-","1">>, <<"0","3">>, <<"²">>}

\* lines typed at the feedback prompt
TextInputs == {<<>>, <<" ">>, <<"f","u","n"," ">>}

\* lines of a response to the extraction prompt: a well-formed line, a
\* well-formed line of the same name, a first segment with a second colon
\* (and the marker in another case), a line with neither colon nor pipe, one
\* with a colon only, one with a pipe only, and one with both but no colon in
\* its first segment
ExtractionLines == <<
    <<"A","l",":"," ","c","a","t"," ","|"," ","p","e","r","s","o","n","a","l","i","t","y",":"," ","s","h","y",","," ","b","o","l","d">>,
    <<"A","l",":"," ","d","o","g"," ","|"," ","x">>,
    <<" ","B","o"," ",":"," ","o","w","l",":"," ","w","i","s","e"," ","|"," ","P","e","r","s","o","n","a","l","i","t","y",":"," ","c","a","l","m">>,
    <<"B","o"," ","d","o","g">>,
    <<"C","y",":"," ","f","o","x">>,
    <<"C","y"," ","|"," ","f","o","x">>,
    <<"D","i"," ","|"," ","a",":"," ","b">>
>>

RECURSIVE JoinLines(_)
\* the response that consists of the given lines
JoinLines(ls) ==
    IF ls = <<>> THEN <<>>
    ELSE IF Len(ls) = 1 THEN ls[1]
    ELSE ls[1] \o <<"\n">> \o JoinLines(Tail(ls))

\* the responses of up to MaxLines lines
LineChoices == UNION {[1..n -> 1..Len(ExtractionLines)] : n \in 0..MaxLines}

ExtractionResponses ==
    {JoinLines([i \in 1..Len(c) |-> ExtractionLines[c[i]]]) : c \in LineChoices}

\* memory.characters before the call: empty, or one character
KnownCharacters == {
    <<>>,
    <<[name |-> <<"A","l">>, description |-> <<"o","l","d">>, personality |-> <<>>]>>
}

\* the state in which fn is called with args on a memory of the given
\* characters
InitCall(fn, args, chars) ==
    /\ InitDetect
    /\ pc = "Call"
    /\ memory = [NewMemory EXCEPT !.characters = chars]
    /\ story_count = 0
    /\ user_input = <<>>
    /\ is_episode = FALSE
    /\ choice = <<>>
    /\ initial_story = None
    /\ story = None
    /\ feedback = NoFeedback
    /\ assess_result = None
    /\ accepted = FALSE
    /\ gs_calls = <<>>
    /\ gs_return = Idle
    /\ turn_start = Snapshot(0, NewMemory, NoFeedback)
    /\ empty_requests = 0
    /\ call_fn = fn
    /\ call_args = args
    /\ call_ret = NotReturned

InitCalls ==
    /\ api_key \in BOOLEAN
    /\ \/ \E b \in BackendOutcomes :
            InitCall("call_model", [backend |-> b], <<>>)
       \/ \E st \in StoryTexts, r \in Ratings, t \in FeedbackTexts, b \in BackendOutcomes :
            InitCall("revise_story_with_feedback",
                     [story |-> st, feedback |-> [rating |-> r, feedback |-> t],
                      backend |-> b], <<>>)
       \/ \E rl \in RatingInputs, tl \in TextInputs :
            InitCall("get_user_feedback", [rating_line |-> rl, text_line |-> tl], <<>>)
       \/ \E chars \in KnownCharacters, r \in ExtractionResponses :
            InitCall("extract_characters", [backend |-> Completes(r)], chars)
       \/ \E chars \in KnownCharacters :
            InitCall("extract_characters", [backend |-> Raises], chars)

\* call_model(prompt)
CallModel ==
    /\ call_fn = "call_model"
    /\ ~call_ret.returned
    /\ LET run == CallModelRun(api_key, call_args.backend)
       IN  call_ret' = [returned |-> TRUE, raised |-> run.raised,
                        value |-> run.value, requests |-> run.requests]
    /\ UNCHANGED <<call_fn, call_args, svars, dgvars>>

\* revise_story_with_feedback(story, feedback, user_request)
ReviseStory ==
    /\ call_fn = "revise_story_with_feedback"
    /\ ~call_ret.returned
    /\ LET fb == call_args.feedback
           revised == call_model(api_key, call_args.backend)
       IN  call_ret' = [returned |-> TRUE, raised |-> FALSE,
                        value |-> revise_story_with_feedback(call_args.story, fb, revised),
                        model_calls |-> RevisionCalls(fb),
                        revised |-> revised]
    /\ UNCHANGED <<call_fn, call_args, svars, dgvars>>

\* get_user_feedback()
GetUserFeedback ==
    /\ call_fn = "get_user_feedback"
    /\ ~call_ret.returned
    /\ call_ret' =
         IF RatingRaises(Strip(call_args.rating_line))
         THEN [returned |-> TRUE, raised |-> TRUE,
               value |-> NoFeedback, text_prompted |-> FALSE]
         ELSE LET fb == get_user_feedback(call_args.rating_line, call_args.text_line)
              IN  [returned |-> TRUE, raised |-> FALSE,
                   value |-> fb, text_prompted |-> AsksText(fb.rating)]
    /\ UNCHANGED <<call_fn, call_args, svars, dgvars>>

\* extract_characters(story, memory), on the same response a second time
\* once it has returned
ExtractCharacters ==
    /\ call_fn = "extract_characters"
    /\ IF call_ret.returned THEN call_ret.applied = 1 ELSE TRUE
    /\ LET result == call_model(api_key, call_args.backend)
           after == extract_characters(result, memory.characters)
       IN  /\ memory' = [memory EXCEPT !.characters = after]
           /\ call_ret' =
                IF ~call_ret.returned
                THEN [returned |-> TRUE, raised |-> FALSE, applied |-> 1,
                      result |-> result, before |-> memory.characters, once |-> after]
                ELSE [call_ret EXCEPT !.applied = 2]
    /\ UNCHANGED <<call_fn, call_args, dgvars, pc, api_key, story_count, user_input,
                   is_episode, choice, initial_story, story, feedback,
                   assess_result, accepted, gs_calls, gs_return, turn_start,
                   empty_requests>>

NextCalls ==
    \/ CallModel
    \/ ReviseStory
    \/ GetUserFeedback
    \/ ExtractCharacters

SpecCalls == InitCalls /\ [][NextCalls]_vars

\* main() and the calls of one function on its own
SpecAll == (Init \/ InitCalls) /\ [][Next \/ NextCalls]_vars

\* ------------------------------------------------------------------------
\* Properties of detect_genre
\* ------------------------------------------------------------------------

\* the text handed to detect_genre
RequestText == JoinWords(user_request)

\* the keywords that occur in the request as case-insensitive substrings
OccurringKeywords ==
    LET low == Lower(RequestText) IN {k \in AllKeywords : Contains(low, k)}

\* for each genre the number of its keywords that occur, each counted once
KeywordCounts ==
    LET occ == OccurringKeywords
    IN  [g \in Genres |-> Cardinality(occ \cap KeywordSets[g])]

\* the highest of the given counts
TopOf(counts) == CHOOSE n \in {counts[g] : g \in Genres} : \A g \in Genres : counts[g] <= n

GenreIndex == [g \in Genres |-> CHOOSE i \in 1..Len(GenreOrder) : GenreOrder[i] = g]

\* C9 as stated: a request written with keywords of one genre only (one or
\* more, in any case, and no other word) is classified as that genre.
C9_WrittenKeywordsOfOneGenre ==
    dg_pc = "returned" =>
        \A g \in Genres :
            (/\ user_request # <<>>
             /\ \A i \in 1..Len(user_request) : Lower(user_request[i]) \in KeywordSets[g])
                => detected_genre = g

\* C9 amended: a request in which every keyword that occurs as a
\* case-insensitive substring belongs to one genre (at least one occurs) is
\* classified as that genre.
C9_OccurringKeywordsOfOneGenre ==
    dg_pc = "returned" =>
        LET occ == OccurringKeywords
        IN  \A g \in Genres :
                (occ # {} /\ occ \subseteq KeywordSets[g]) => detected_genre = g

\* C9 witness: a request of upper-case and lower-case words whose occurring
\* keywords are all fantasy keywords has been classified as fantasy.
C9_Witness ==
    /\ dg_pc = "returned"
    /\ detected_genre = "fantasy"
    /\ Len(user_request) >= 2
    /\ Lower(RequestText) # RequestText
    /\ OccurringKeywords # {}
    /\ OccurringKeywords \subseteq KeywordSets["fantasy"]

\* C10: detect_genre returns a genre of the highest keyword count (each
\* keyword counted once), the first such genre in table order when several
\* share a non-zero highest count, and adventure when every count is zero.
C10_HighestCountFirstDefined ==
    dg_pc = "returned" =>
        LET counts == KeywordCounts
            top == TopOf(counts)
        IN  IF top = 0
            THEN detected_genre = "adventure"
            ELSE /\ detected_genre \in Genres
                 /\ counts[detected_genre] = top
                 /\ \A g \in Genres :
                        GenreIndex[g] < GenreIndex[detected_genre] => counts[g] < top

\* C10 witness: two genres share the highest non-zero count, the later one
\* through a keyword written twice, and the earlier one was returned.
C10_Witness ==
    /\ dg_pc = "returned"
    /\ Len(user_request) >= 3
    /\ LET counts == KeywordCounts
           top == TopOf(counts)
       IN  /\ top > 0
           /\ \E g \in Genres :
                /\ GenreIndex[g] > GenreIndex[detected_genre]
                /\ counts[g] = top
                /\ \E i, j \in 1..Len(user_request) :
                        /\ i < j
                        /\ user_request[i] = user_request[j]
                        /\ user_request[i] \in KeywordSets[g]

\* ------------------------------------------------------------------------
\* Properties of generate_story
\* ------------------------------------------------------------------------

HasCall(kind) == \E i \in 1..Len(gs_calls) : gs_calls[i].kind = kind

\* the value call_model returned to the call of this kind
CallResult(kind) == gs_calls[CHOOSE i \in 1..Len(gs_calls) : gs_calls[i].kind = kind].result

GenerateReturned == gs_return.st = "returned"

\* C1 as stated, a call failing when call_model returns None and succeeding
\* when it returns a text: generate_story returns None if the draft call
\* fails, the draft if the evaluation call fails, the draft if the refinement
\* call fails, and the refinement text if all three succeed.
C1_ResultByCallOutcome ==
    GenerateReturned =>
        /\ CallResult("draft").isNone => gs_return.value = None
        /\ (HasCall("evaluation") /\ CallResult("evaluation").isNone)
                => gs_return.value = CallResult("draft")
        /\ (HasCall("refinement") /\ CallResult("refinement").isNone)
                => gs_return.value = CallResult("draft")
        /\ (HasCall("refinement") /\ ~CallResult("refinement").isNone)
                => gs_return.value = CallResult("refinement")

\* C1 amended, a call failing when call_model returns None or an empty text:
\* generate_story returns None if the draft call fails, the draft if the
\* evaluation call fails, the draft if the refinement call fails, and the
\* refinement text if all three return a non-empty text; for episodes and
\* for new stories.
C1_ResultByCallTruth ==
    GenerateReturned =>
        /\ HasCall("draft")
        /\ IF ~Truthy(CallResult("draft"))
           THEN gs_return.value = None
           ELSE /\ HasCall("evaluation")
                /\ IF ~Truthy(CallResult("evaluation"))
                   THEN gs_return.value = CallResult("draft")
                   ELSE /\ HasCall("refinement")
                        /\ IF ~Truthy(CallResult("refinement"))
                           THEN gs_return.value = CallResult("draft")
                           ELSE gs_return.value = CallResult("refinement")

\* C1 witness: an episode generation whose three calls returned texts has
\* returned the refinement text.
C1_Witness ==
    /\ GenerateReturned
    /\ is_episode
    /\ HasCall("refinement")
    /\ Truthy(CallResult("refinement"))
    /\ gs_return.value = Some(RefinedText)

\* C2: a non-episode generation that returns a story has run the character
\* extractor on exactly that story before it returns; an episode generation
\* never runs the extractor.
C2_ExtractorRunsOnReturnedStory ==
    /\ (GenerateReturned /\ ~gs_return.value.isNone /\ ~is_episode)
            => \E i \in 1..Len(gs_calls) :
                    /\ gs_calls[i].kind = "extraction"
                    /\ gs_calls[i].arg = gs_return.value.text
    /\ is_episode => ~HasCall("extraction") /\ pc # "Extract"

\* ------------------------------------------------------------------------
\* Properties of the session
\* ------------------------------------------------------------------------

LastRecord == memory.story_history[Len(memory.story_history)]

SeqSet(q) == {q[i] : i \in 1..Len(q)}

\* generate_story has been called for an episode and has not yet called the
\* model
EpisodeStarts == pc = "Draft" /\ is_episode

\* C3: when an episode generation starts, memory.genre is the genre of the
\* most recent story_history record.
C3_EpisodeGenreIsLastStoryGenre ==
    EpisodeStarts =>
        /\ memory.story_history # <<>>
        /\ memory.genre = LastRecord.genre

\* C4: when an episode generation starts, the names in memory.characters are
\* the character names of the most recent story_history record.
C4_EpisodeCharactersAreLastStoryCharacters ==
    EpisodeStarts =>
        /\ memory.story_history # <<>>
        /\ SeqSet(Keys(memory.characters)) = SeqSet(LastRecord.characters)

\* C5: when generate_story has returned None, the counter, story_history,
\* current_story and the preferences are what they were when the turn began,
\* no feedback was collected, and the next step shows the first prompt if the
\* counter is 0 and assesses the latest story otherwise, with all of them
\* still unchanged.
C5_FailedGenerationKeepsState ==
    [][(GenerateReturned /\ gs_return.value.isNone) =>
            /\ Snapshot(story_count, memory, feedback) = turn_start
            /\ feedback = NoFeedback
            /\ Snapshot(story_count', memory', feedback') = turn_start
            /\ pc' = IF story_count' = 0 THEN "AwaitingFirstRequest"
                     ELSE "AwaitingNextAction"]_vars

\* C5 witness: after one story, a new-story generation has returned None and
\* has left its genre in memory.
C5_Witness ==
    /\ pc = "Failed"
    /\ story_count = 1
    /\ ~is_episode
    /\ memory.genre # LastRecord.genre

RequestPrompts == {"AwaitingFirstRequest", "PromptEpisode", "PromptNew", "PromptNext"}

\* C6: once past the credential check, the session reaches Done only by a
\* request line that is quit, exit or q in any case, or by menu choice 3; no
\* step that calls the model, and no report of a failed generation, reaches
\* Done.
C6_DoneOnlyByQuit ==
    [][(pc # "Done" /\ pc' = "Done") =>
            \/ pc = "Startup" /\ ~api_key
            \/ pc = "Menu" /\ choice' = <<"3">>
            \/ /\ pc \in RequestPrompts
               /\ Lower(user_input') \in {<<"q","u","i","t">>, <<"e","x","i","t">>, <<"q">>}]_vars

\* C6 witness: the session ended by menu choice 3 after a generation failed
\* (the failed new story left its genre in memory).
C6_Witness ==
    /\ pc = "Done"
    /\ story_count = 1
    /\ choice = <<"3">>
    /\ memory.genre # LastRecord.genre

HoldsYes(text) ==
    \E i \in 1..(Len(text) - 2) : Lower(SubSeq(text, i, i + 2)) = <<"y","e","s">>

\* the turn has assessed the latest story
Assessed == story_count > 0 /\ pc # "AwaitingNextAction"

GenerationSteps == {"Draft", "Evaluate", "Refine", "Extract", "Failed", "Feedback", "Revise"}

\* C8: the assessment is accepted exactly if the response is not None and
\* holds YES in any case; the menu and the prompts behind it are reached only
\* when it is accepted; a generation is an episode only if it was accepted and
\* the choice was 1; when it is not accepted no menu line is read, the
\* characters are cleared and the generation of the turn is no episode.
C8_AssessmentDecidesTurn ==
    /\ Assessed => (accepted <=> (~assess_result.isNone /\ HoldsYes(assess_result.text)))
    /\ pc \in {"Menu", "PromptEpisode", "PromptNew"} => accepted
    /\ is_episode => (accepted /\ choice = <<"1">>)
    /\ (Assessed /\ ~accepted) =>
            /\ choice = <<>>
            /\ pc \in {"PromptNext", "Done"} \cup GenerationSteps
            /\ ~is_episode
            /\ pc \in {"Done", "Draft", "Evaluate", "Refine", "Failed"}
                    => memory.characters = <<>>

\* C8 witness: an episode generation starts after an assessment that answered
\* yes in lower case.
C8_Witness ==
    /\ EpisodeStarts
    /\ accepted
    /\ assess_result.text # Upper(assess_result.text)

\* C8 witness of the rejection: a generation starts after a response that
\* holds the letters of YES in another order.
C8_WitnessRejected ==
    /\ pc = "Draft"
    /\ story_count > 0
    /\ ~accepted
    /\ ~assess_result.isNone
    /\ assess_result.text # <<>>

\* ------------------------------------------------------------------------
\* Properties of revise_story_with_feedback and call_model
\* ------------------------------------------------------------------------

Called(fn) == call_fn = fn /\ call_ret.returned

\* C11 as stated, the call failing when call_model returns None: for every
\* rating 0..5, revise_story_with_feedback returns its story and calls the
\* model zero times if the rating is at least 4 or the text is empty;
\* otherwise it calls the model once and returns the text of that call, or
\* its story if the call failed.  In the session the revision call is made
\* only with a rating of 1 or 2 and a non-empty text.
C11_RevisionByCallOutcome ==
    /\ Called("revise_story_with_feedback") =>
            LET fb == call_args.feedback
            IN  IF fb.rating >= 4 \/ fb.feedback = <<>>
                THEN call_ret.value = call_args.story /\ call_ret.model_calls = 0
                ELSE /\ call_ret.model_calls = 1
                     /\ call_ret.value = IF call_ret.revised.isNone
                                         THEN call_args.story
                                         ELSE call_ret.revised.text
    /\ pc = "Revise" => feedback.rating \in {1, 2} /\ feedback.feedback # <<>>

\* C11 amended, the call failing when call_model returns None or an empty
\* text: for every rating 0..5, revise_story_with_feedback returns its story
\* and calls the model zero times if the rating is at least 4 or the text is
\* empty; otherwise it calls the model once and returns the text of that
\* call, or its story if the call failed.  In the session the revision call
\* is made only with a rating of 1 or 2 and a non-empty text.
C11_RevisionByCallTruth ==
    /\ Called("revise_story_with_feedback") =>
            LET fb == call_args.feedback
            IN  IF fb.rating >= 4 \/ fb.feedback = <<>>
                THEN call_ret.value = call_args.story /\ call_ret.model_calls = 0
                ELSE /\ call_ret.model_calls = 1
                     /\ call_ret.value = IF call_ret.revised.isNone \/ call_ret.revised.text = <<>>
                                         THEN call_args.story
                                         ELSE call_ret.revised.text
    /\ pc = "Revise" => feedback.rating \in {1, 2} /\ feedback.feedback # <<>>

\* C11 witness: called with rating 3 and a text, the function has called the
\* model once and returned the text of that call.
C11_Witness ==
    /\ Called("revise_story_with_feedback")
    /\ call_args.feedback.rating = 3
    /\ call_args.feedback.feedback # <<>>
    /\ call_ret.model_calls = 1
    /\ call_ret.value = RevisedText
    /\ call_ret.value # call_args.story

\* C12: call_model does not raise; without a credential it returns None and
\* sends no request to the backend; with one it returns None if the backend
\* fails and the completion text otherwise.  A session without a credential
\* ends at the credential check: no prompt is shown, no call is made and
\* nothing is stored.
C12_CallModelAbsorbsFailures ==
    /\ Called("call_model") =>
            /\ ~call_ret.raised
            /\ IF ~api_key
               THEN call_ret.value = None /\ call_ret.requests = 0
               ELSE IF call_args.backend.raises
               THEN call_ret.value = None
               ELSE call_ret.value = Some(call_args.backend.text)
    /\ (call_fn = "main" /\ ~api_key) =>
            /\ pc \in {"Startup", "Done"}
            /\ memory = NewMemory
            /\ story_count = 0
            /\ gs_calls = <<>>

\* C12 witness: without a credential call_model has returned None although
\* the backend would have completed, and no request was sent.
C12_Witness ==
    /\ Called("call_model")
    /\ ~api_key
    /\ ~call_args.backend.raises
    /\ call_args.backend.text # <<>>
    /\ call_ret.value = None
    /\ call_ret.requests = 0

\* C12 witness of the absorbed failure: with a credential the backend raised
\* and call_model returned None.
C12_WitnessBackendFailure ==
    /\ Called("call_model")
    /\ api_key
    /\ call_args.backend.raises
    /\ call_ret.value = None
    /\ ~call_ret.raised

\* ------------------------------------------------------------------------
\* Properties of extract_characters
\* ------------------------------------------------------------------------

\* the lines of the response that extract_characters parsed
ResponseLines ==
    IF call_ret.result.isNone \/ call_ret.result.text = <<>> THEN <<>>
    ELSE Split(call_ret.result.text, "\n")

HasChar(text, ch) == \E i \in 1..Len(text) : text[i] = ch

LacksColonOrPipe(line) == ~HasChar(line, ":") \/ ~HasChar(line, "|")

HasColonAndPipe(line) == ~LacksColonOrPipe(line)

HasEntry(chars, name) == \E i \in 1..Len(chars) : chars[i].name = name

EntryOf(chars, name) == chars[CHOOSE i \in 1..Len(chars) : chars[i].name = name]

\* what one line records when parsed on its own: nothing or one character
RecordsOf(line) == ParseLine(<<>>, line)

\* C13: extract_characters does not raise; a None response leaves
\* memory.characters as it was; a response whose lines all lack a colon or a
\* pipe leaves it as it was; and in any response the lines that lack a colon
\* or a pipe add and change nothing: the characters are those that the other
\* lines alone give.
C13_MalformedLinesAreSkipped ==
    Called("extract_characters") =>
        LET lines == ResponseLines
        IN  /\ ~call_ret.raised
            /\ call_ret.result.isNone => call_ret.once = call_ret.before
            /\ (\A i \in 1..Len(lines) : LacksColonOrPipe(lines[i]))
                    => call_ret.once = call_ret.before
            /\ call_ret.once = ParseLines(call_ret.before,
                                          SelectSeq(lines, HasColonAndPipe), 1)

\* C13 witness: a response with one line that has a colon and no pipe and
\* one well-formed line has been parsed: the well-formed line is recorded and
\* the other line has left no character.
C13_Witness ==
    /\ Called("extract_characters")
    /\ call_ret.before # <<>>
    /\ Len(ResponseLines) = 2
    /\ \E i \in 1..2 :
            /\ HasChar(ResponseLines[i], ":")
            /\ ~HasChar(ResponseLines[i], "|")
            /\ \A k \in 1..Len(call_ret.once) :
                    call_ret.once[k].name # SubSeq(ResponseLines[i], 1, 2)
    /\ Len(call_ret.once) = 2

\* C14: the names of memory.characters are pairwise different; applying the
\* same response a second time leaves memory.characters as the first
\* application left it; and the character of a name is the one that the last
\* line recording that name gives, whether or not the name was known before.
C14_ExtractionIdempotentLastWins ==
    Called("extract_characters") =>
        LET lines == ResponseLines
            chars == memory.characters
        IN  /\ \A i, j \in 1..Len(chars) : i # j => chars[i].name # chars[j].name
            /\ call_ret.applied = 2 => chars = call_ret.once
            /\ \A i \in 1..Len(lines) :
                    (/\ RecordsOf(lines[i]) # <<>>
                     /\ \A j \in (i + 1)..Len(lines) :
                            \/ RecordsOf(lines[j]) = <<>>
                            \/ RecordsOf(lines[j])[1].name # RecordsOf(lines[i])[1].name)
                        => /\ HasEntry(call_ret.once, RecordsOf(lines[i])[1].name)
                           /\ EntryOf(call_ret.once, RecordsOf(lines[i])[1].name)
                                = RecordsOf(lines[i])[1]

\* C14 witness: a response with two lines of one name that is already known
\* has been applied twice; the character is the one of the second line.
C14_Witness ==
    /\ Called("extract_characters")
    /\ call_ret.applied = 2
    /\ Len(call_ret.before) = 1
    /\ Len(ResponseLines) = 2
    /\ RecordsOf(ResponseLines[1]) # <<>>
    /\ RecordsOf(ResponseLines[2]) # <<>>
    /\ RecordsOf(ResponseLines[1])[1].name = call_ret.before[1].name
    /\ RecordsOf(ResponseLines[2])[1].name = call_ret.before[1].name
    /\ RecordsOf(ResponseLines[1]) # RecordsOf(ResponseLines[2])
    /\ memory.characters = RecordsOf(ResponseLines[2])

FirstIndex(text, ch) ==
    CHOOSE k \in 1..Len(text) : text[k] = ch /\ \A j \in 1..(k - 1) : text[j] # ch

\* the text before the first pipe of a line that has a pipe
FirstSegment(line) == SubSeq(line, 1, FirstIndex(line, "|") - 1)

\* the line has a colon and a pipe, and a colon before the first pipe
NamesCharacter(line) == HasColonAndPipe(line) /\ HasChar(FirstSegment(line), ":")

\* the trimmed text before the first colon of the first segment
NameWritten(line) ==
    LET seg == FirstSegment(line)
    IN  Strip(SubSeq(seg, 1, FirstIndex(seg, ":") - 1))

\* the trimmed text of the first segment after its first colon
RemainderWritten(line) ==
    LET seg == FirstSegment(line)
    IN  Strip(SubSeq(seg, FirstIndex(seg, ":") + 1, Len(seg)))

\* C18: for every line with a colon and a pipe whose first segment has a
\* colon (the last such line of its name), the character recorded has as name
\* the trimmed text before the first colon and as description the whole
\* trimmed rest of the first segment after that colon, further colons
\* included.
C18_DescriptionIsWholeRemainder ==
    Called("extract_characters") =>
        LET lines == ResponseLines
        IN  \A i \in 1..Len(lines) :
                (/\ NamesCharacter(lines[i])
                 /\ \A j \in (i + 1)..Len(lines) :
                        NamesCharacter(lines[j]) => NameWritten(lines[j]) # NameWritten(lines[i]))
                    => /\ HasEntry(call_ret.once, NameWritten(lines[i]))
                       /\ EntryOf(call_ret.once, NameWritten(lines[i])).description
                            = RemainderWritten(lines[i])

\* ------------------------------------------------------------------------
\* Properties of get_user_feedback
\* ------------------------------------------------------------------------

DigitsOneToFive == {<<"1">>, <<"2">>, <<"3">>, <<"4">>, <<"5">>}

\* C15: get_user_feedback returns (it does not raise) a rating in 0..5; a
\* rating line that is not one of the digits 1 to 5 gives rating 0 and an
\* empty text, and the text prompt is not shown; the text prompt is shown
\* only for a rating of 1, 2, 4 or 5; rating 3 gives an empty text.
C15_RatingAlwaysInRange ==
    Called("get_user_feedback") =>
        LET fb == call_ret.value
        IN  /\ ~call_ret.raised
            /\ fb.rating \in 0..5
            /\ Strip(call_args.rating_line) \notin DigitsOneToFive
                    => /\ fb.rating = 0
                       /\ fb.feedback = <<>>
                       /\ ~call_ret.text_prompted
            /\ call_ret.text_prompted => fb.rating \in {1, 2, 4, 5}
            /\ fb.rating = 3 => fb.feedback = <<>>

\* ------------------------------------------------------------------------
\* Properties of the order of the model calls, of the preference counters
\* and of the first prompt
\* ------------------------------------------------------------------------

KindOrder == <<"draft", "evaluation", "refinement", "extraction">>

KindRank(kind) == CHOOSE i \in 1..Len(KindOrder) : KindOrder[i] = kind

\* C16: the calls of one generate_story are in the order draft, evaluation,
\* refinement, extraction, each kind at most once; an evaluation call is made
\* only after a draft call that returned a text, a refinement call only after
\* an evaluation call that returned a text, and a draft call that failed is
\* the only call of its invocation.
C16_CallsInFixedOrder ==
    /\ \A i \in 1..Len(gs_calls) : gs_calls[i].kind \in SeqSet(KindOrder)
    /\ \A i, j \in 1..Len(gs_calls) :
            i < j => KindRank(gs_calls[i].kind) < KindRank(gs_calls[j].kind)
    /\ HasCall("evaluation") =>
            /\ HasCall("draft")
            /\ ~CallResult("draft").isNone
            /\ CallResult("draft").text # <<>>
    /\ HasCall("refinement") =>
            /\ HasCall("evaluation")
            /\ ~CallResult("evaluation").isNone
            /\ CallResult("evaluation").text # <<>>
    /\ HasCall("extraction") => HasCall("draft")
    /\ (HasCall("draft") /\ CallResult("draft").isNone) => Len(gs_calls) = 1
    /\ (GenerateReturned /\ HasCall("evaluation") /\ CallResult("evaluation").isNone)
            => Len(gs_calls) = 2

\* C16 witness: a generation has made its four calls in order, the
\* refinement call failed and was not repeated.
C16_Witness ==
    /\ GenerateReturned
    /\ Len(gs_calls) = 4
    /\ gs_calls[3].kind = "refinement"
    /\ gs_calls[3].result.isNone
    /\ gs_calls[4].kind = "extraction"

\* the number of story_history records of genre g rated 4 or more
RatedHigh(history, g) ==
    Cardinality({i \in 1..Len(history) :
                    history[i].genre = g /\ history[i].quality_score >= 4})

\* C17: the preference counters are exactly the genres that have a
\* story_history record rated 4 or more, each with the number of such
\* records; a step that stores a story rated below 4, and a step that stores
\* none, leaves the counters as they were.
C17_PreferencesCountHighRatings ==
    /\ [](/\ \A i \in 1..Len(memory.story_history) :
                memory.story_history[i].genre \in Genres
          /\ DOMAIN memory.user_preferences
                = {g \in Genres : RatedHigh(memory.story_history, g) > 0}
          /\ \A g \in DOMAIN memory.user_preferences :
                memory.user_preferences[g] = RatedHigh(memory.story_history, g))
    /\ [][LET h == memory.story_history'
          IN  (\/ Len(h) = Len(memory.story_history)
               \/ h[Len(h)].quality_score < 4)
                    => memory.user_preferences' = memory.user_preferences]_vars

\* C17 witness: two stories of one genre are stored, one rated 4 and one
\* rated below 4, and the counter of the genre is 1.
C17_Witness ==
    /\ Len(memory.story_history) = 2
    /\ memory.story_history[1].genre = memory.story_history[2].genre
    /\ memory.story_history[1].quality_score >= 4
    /\ memory.story_history[2].quality_score \in 1..3
    /\ memory.user_preferences[memory.story_history[1].genre] = 1

QuitWords == {<<"q","u","i","t">>, <<"e","x","i","t">>, <<"q">>}

\* the step reads an empty request line
ReadsEmptyRequest == empty_requests' = empty_requests + 1

\* C19 as stated: at the first prompt a request of quit, exit or q in any
\* case ends the session with no model call; an empty request shows the
\* prompt again and a second empty request in a row ends the session; any
\* other request starts a generation that is no episode.
C19_EmptyAfterRepromptEndsSession ==
    [][pc = "AwaitingFirstRequest" =>
            IF ReadsEmptyRequest
            THEN IF empty_requests >= 1 THEN pc' = "Done"
                 ELSE pc' = "AwaitingFirstRequest"
            ELSE IF Lower(user_input') \in QuitWords
            THEN pc' = "Done" /\ gs_calls' = <<>> /\ gs_return' = Idle
            ELSE pc' = "Draft" /\ ~is_episode' /\ gs_return' = Running]_vars

\* C19 amended: at the first prompt a request of quit, exit or q in any case
\* ends the session with no model call; an empty request, the first or a
\* later one in a row, shows the first prompt again with nothing changed and
\* no model call; any other request starts a generation that is no episode.
C19_EmptyRequestAsksAgain ==
    [][pc = "AwaitingFirstRequest" =>
            IF ReadsEmptyRequest
            THEN /\ pc' = "AwaitingFirstRequest"
                 /\ memory' = memory
                 /\ story_count' = story_count
                 /\ gs_calls' = <<>>
                 /\ gs_return' = Idle
            ELSE IF Lower(user_input') \in QuitWords
            THEN pc' = "Done" /\ gs_calls' = <<>> /\ gs_return' = Idle
            ELSE pc' = "Draft" /\ ~is_episode' /\ gs_return' = Running]_vars

\* C19 witness: two empty requests in a row were typed at the first prompt
\* and the first prompt is shown again.
C19_Witness ==
    /\ pc = "AwaitingFirstRequest"
    /\ empty_requests = 2
    /\ story_count = 0

====
